---- MODULE Spec2Model ----
(***************************************************************************)
(* Cold-pool detection engine of coldpooling/cp_detection_timeseries.py    *)
(* (class cp_detection): the constructor (validation, candidate search,    *)
(* sequential rejection cascade) and the query methods.                     *)
(*                                                                          *)
(* Encoding.  Python indices are 0-based; a series is a TLA+ sequence and   *)
(* At(s, i) reads Python's s[i].  Temperatures and rainfall amounts are     *)
(* integers (exact arithmetic), a missing sample (numpy nan) is the value   *)
(* NaN, and every arithmetic or comparison operator below treats NaN as     *)
(* numpy does.  Availability thresholds are fractions <<num, den>>.  The    *)
(* grid is described by its kind, its length and its step in seconds.       *)
(* `out` holds the diagnostics printed by the most recent operation.        *)
(***************************************************************************)
EXTENDS Integers, Sequences, FiniteSets

\* ------------------------------------------------------------------ bounds
MaxN == 5
MaxT == 2

\* --------------------------------------------------------- program constants
NaN == -1000
SentinelPrev == -99999
MinGrid == 3
SecondsPerDay == 86400
SecondsPerMinute == 60

VARIABLES
    inp,      \* constructor arguments: grid (kind, n, step), ttdata, rrdata, cfg
    pc,       \* "new", "scan", "done" (constructed), "raised" (constructor raised)
    self,     \* the object's attributes
    loc,      \* constructor locals: ntt, t_ttlim, k (next candidate), icp_prev, cp_index
    last,     \* the candidate handled by the latest loop iteration: t, icp, verdict
    out,      \* diagnostics printed by the most recent operation
    err,      \* the exception that left the most recent operation, or "none"
    qry       \* the latest query: op, args, input series, result

vars == <<inp, pc, self, loc, last, out, err, qry>>

\* ------------------------------------------------------------ numpy helpers
IsFinite(x) == x # NaN

At(s, i) == s[i + 1]

\* a slice bound as Python normalises it: negative bounds count from the end,
\* and the result is clamped to 0..len
SliceBound(i, len) ==
    IF i < 0 THEN (IF i + len < 0 THEN 0 ELSE i + len)
    ELSE IF i > len THEN len ELSE i

\* s[a:b]
Slice(s, a, b) ==
    LET lo == SliceBound(a, Len(s))
        hi == SliceBound(b, Len(s))
    IN  [j \in 1..(hi - lo) |-> s[lo + j]]

Add(a, b) == IF IsFinite(a) /\ IsFinite(b) THEN a + b ELSE NaN

Sub(a, b) == IF IsFinite(a) /\ IsFinite(b) THEN a - b ELSE NaN

\* a <= b under numpy: any comparison with nan is False
Le(a, b) == IsFinite(a) /\ IsFinite(b) /\ a <= b

RECURSIVE NpSum(_)
NpSum(s) == IF s = <<>> THEN 0 ELSE Add(Head(s), NpSum(Tail(s)))

Min(S) == CHOOSE x \in S : \A y \in S : x <= y

RECURSIVE SortedSeq(_)
SortedSeq(S) == IF S = {} THEN <<>> ELSE <<Min(S)>> \o SortedSeq(S \ {Min(S)})

\* int(a / b) for b > 0: Python's int() truncates toward zero
TruncDiv(a, b) == IF a >= 0 THEN a \div b ELSE -((-a) \div b)

\* --------------------------------------------------------- internal methods
\* _index_cp: the period's slice <<start, stop>>
IndexCp(index_cp, period, npre, npost) ==
    LET ipre == index_cp - npre
        ipost == index_cp + npost + 1
    IN  CASE period = "pre" -> <<ipre, index_cp + 1>>
          [] period = "post" -> <<index_cp + 1, ipost>>
          [] period = "all" -> <<ipre, ipost>>

\* _check_data_len: len_indata == self.ntime
CheckDataLen(len, ntime) == len = ntime

\* what _check_data_len prints on a mismatch
LenDiag(len, ntime, varstr) ==
    IF len # ntime /\ ntime # -1 THEN <<"len_" \o varstr>> ELSE <<>>

\* _check_data_avail: sum(isfinite) / shape[0] >= threshold (0/0 is nan)
CheckDataAvail(indata, threshold) ==
    /\ Len(indata) > 0
    /\ Cardinality({i \in DOMAIN indata : IsFinite(indata[i])}) * threshold[2]
          >= threshold[1] * Len(indata)

\* what _check_data_avail prints
AvailDiag(indata, threshold, warn, warnstr) ==
    IF ~CheckDataAvail(indata, threshold) /\ warn THEN <<"avail_" \o warnstr>> ELSE <<>>

\* ------------------------------------------------------ constructor pieces
\* tres = (dtdata[1] - dtdata[0]).seconds / 60, kept in seconds: Timedelta.seconds
\* is the seconds component of the step, the days are not in it
TresSeconds(step) == step % SecondsPerDay

\* int(d / tres) with d in minutes
SampleCount(d, tresSec) == TruncDiv(d * SecondsPerMinute, tresSec)

\* TTLim with a strict comparison against d_tt
TTLim_Strict(tt, ntt, d_tt) ==
    SortedSeq({t \in 0..(Len(tt) - ntt - 1) :
                  Le(Sub(At(tt, t + ntt), At(tt, t)), d_tt - 1)})

\* np.where((ttdata[ntt:] - ttdata[:-ntt]) <= d_tt)[0]
TTLim(tt, ntt, d_tt) ==
    SortedSeq({t \in 0..(Len(tt) - ntt - 1) : Le(Sub(At(tt, t + ntt), At(tt, t)), d_tt)})

\* TooClose with a strict comparison
TooClose_Strict(t, icp_prev, npost) == t - icp_prev < npost

\* line 125: t - icp_prev <= self.npost
TooClose(t, icp_prev, npost) == t - icp_prev <= npost

\* np.where(ttdata[slc_p] <= tt_p)[0], as absolute indices
PassageHits(tt, t, ntt, d_tt_p) ==
    {p \in t..(t + ntt) : Le(At(tt, p), Add(At(tt, t), d_tt_p))}

\* PassageIndex without the step back by one sample
PassageIndex_NoStepBack(tt, t, ntt, d_tt_p) == Min(PassageHits(tt, t, ntt, d_tt_p))

\* line 132: first hit + slc_p.start - 1
PassageIndex(tt, t, ntt, d_tt_p) == Min(PassageHits(tt, t, ntt, d_tt_p)) - 1

\* OutOfSeries with the end of the series off by one
OutOfSeries_OffByOne(slc_all, ntime) == (slc_all[1] < 0) \/ (slc_all[2] > ntime + 1)

\* line 137
OutOfSeries(slc_all, ntime) == (slc_all[1] < 0) \/ (slc_all[2] > ntime)

\* line 149: np.sum(rrdata[slc_post]) == 0 (nan == 0 is False)
NoRain(rr, slc_post) == NpSum(Slice(rr, slc_post[1], slc_post[2])) = 0

\* ------------------------------------------------------------------- inputs
TVals == (0..MaxT) \cup {NaN}
RVals == {-1, 0, 1, NaN}

SeqsOf(V, n) == [1..n -> V]

Const(v, n) == [i \in 1..n |-> v]

\* a constant series with one sample replaced
OneOff(V, base, n) ==
    {[i \in 1..n |-> IF i = j THEN v ELSE base] : j \in 1..n, v \in V}

NoQuery == [op |-> "none", args |-> <<>>, indata |-> <<>>, kind |-> "none",
            cols |-> <<>>]

NoCand == [t |-> -1, icp |-> -1, verdict |-> "none", prev |-> SentinelPrev]

NewSelf == [ntime |-> -1, hasattrs |-> FALSE, npre |-> 0, npost |-> 0,
            data_avail_cp |-> <<1, 1>>, data_avail_all |-> <<9, 10>>,
            warn_avail_cp |-> TRUE, warn_avail_all |-> TRUE,
            built |-> FALSE, ttdata |-> <<>>, rrdata |-> <<>>,
            cp_index |-> <<>>, cp_datetime |-> <<>>, ncp |-> 0]

NewLoc == [ntt |-> 0, t_ttlim |-> <<>>, k |-> 1, icp_prev |-> SentinelPrev,
           cp_index |-> <<>>]

DefaultCfg == [d_tt |-> -2, d_time |-> 1, time_pre |-> 1, time_post |-> 1,
               d_tt_p |-> -1, data_avail_cp |-> <<1, 1>>,
               data_avail_all |-> <<9, 10>>,
               warn_avail_cp |-> TRUE, warn_avail_all |-> TRUE]

MkInp(kind, n, step, tt, rr, cfg) ==
    [kind |-> kind, n |-> n, step |-> step, ttdata |-> tt, rrdata |-> rr, cfg |-> cfg]

Start(i) ==
    /\ inp = i
    /\ pc = "new"
    /\ self = NewSelf
    /\ loc = NewLoc
    /\ last = NoCand
    /\ out = <<>>
    /\ err = "none"
    /\ qry = NoQuery

\* -------------------------------------------------------------- constructor
\* __init__, lines 50-120: validation, availability warnings, sample counts,
\* candidate search
Validate ==
    /\ pc = "new"
    /\ LET cfg == inp.cfg
           check_dt == inp.kind # "notdt"
           check_tres == inp.kind = "regular"
           gridDiag == CASE inp.kind = "notdt" -> <<"not_dt">>
                         [] inp.kind = "irregular" -> <<"no_regular">>
                         [] OTHER -> <<>>
           ntime == IF check_dt THEN inp.n ELSE -1
           check_len_tt == CheckDataLen(Len(inp.ttdata), ntime)
           check_len_rr == CheckDataLen(Len(inp.rrdata), ntime)
           lenDiag == LenDiag(Len(inp.ttdata), ntime, "TT")
                        \o LenDiag(Len(inp.rrdata), ntime, "RR")
           check_all == check_dt /\ check_tres /\ check_len_tt /\ check_len_rr
           availDiag == AvailDiag(inp.ttdata, cfg.data_avail_all, cfg.warn_avail_all, "TT")
                          \o AvailDiag(inp.rrdata, cfg.data_avail_all, cfg.warn_avail_all, "RR")
           tres == TresSeconds(inp.step)
           ntt == SampleCount(cfg.d_time, tres)
           npre == SampleCount(cfg.time_pre, tres)
           npost == SampleCount(cfg.time_post, tres)
           resDiag == (IF ntt <= 0 THEN <<"res_d_time">> ELSE <<>>)
                        \o (IF npre <= 0 THEN <<"res_time_pre">> ELSE <<>>)
                        \o (IF npost <= 0 THEN <<"res_time_post">> ELSE <<>>)
           withAttrs == [self EXCEPT !.ntime = ntime, !.hasattrs = TRUE,
                             !.data_avail_cp = cfg.data_avail_cp,
                             !.data_avail_all = cfg.data_avail_all,
                             !.warn_avail_cp = cfg.warn_avail_cp,
                             !.warn_avail_all = cfg.warn_avail_all]
       IN  IF ~check_all
           THEN /\ self' = [self EXCEPT !.ntime = ntime]
                /\ out' = gridDiag \o lenDiag
                /\ pc' = "scan"
                /\ UNCHANGED <<loc, err>>
           ELSE IF tres = 0
           THEN \* d_time / tres divides by zero
                /\ self' = withAttrs
                /\ out' = gridDiag \o lenDiag \o availDiag
                /\ pc' = "raised"
                /\ err' = "ZeroDivisionError"
                /\ UNCHANGED loc
           ELSE /\ self' = [withAttrs EXCEPT !.npre = npre, !.npost = npost]
                /\ out' = gridDiag \o lenDiag \o availDiag \o resDiag
                /\ loc' = [loc EXCEPT !.ntt = ntt,
                               !.t_ttlim = IF (ntt > 0) /\ (npre > 0) /\ (npost > 0)
                                           THEN TTLim(inp.ttdata, ntt, cfg.d_tt)
                                           ELSE <<>>,
                               !.icp_prev = SentinelPrev]
                /\ pc' = "scan"
                /\ UNCHANGED err
    /\ UNCHANGED <<inp, last, qry>>

\* one iteration of the loop over t_ttlim, lines 122-154
ScanStep ==
    /\ pc = "scan"
    /\ loc.k <= Len(loc.t_ttlim)
    /\ LET t == loc.t_ttlim[loc.k]
           tt == inp.ttdata
           rr == inp.rrdata
           hits == PassageHits(tt, t, loc.ntt, inp.cfg.d_tt_p)
           icp == PassageIndex(tt, t, loc.ntt, inp.cfg.d_tt_p)
           slc_post == IndexCp(icp, "post", self.npre, self.npost)
           slc_all == IndexCp(icp, "all", self.npre, self.npost)
           skip(v, i) == /\ loc' = [loc EXCEPT !.k = @ + 1]
                         /\ last' = [t |-> t, icp |-> i, verdict |-> v,
                                     prev |-> loc.icp_prev]
                         /\ UNCHANGED <<pc, err>>
       IN  IF TooClose(t, loc.icp_prev, self.npost)
           THEN skip("separation", -1)
           ELSE IF hits = {}
           THEN \* np.where(...)[0][0] on an empty array
                /\ pc' = "raised"
                /\ err' = "IndexError"
                /\ last' = [t |-> t, icp |-> -1, verdict |-> "raised",
                            prev |-> loc.icp_prev]
                /\ UNCHANGED loc
           ELSE IF OutOfSeries(slc_all, self.ntime)
           THEN skip("boundary", icp)
           ELSE IF ~CheckDataAvail(Slice(tt, slc_all[1], slc_all[2]), self.data_avail_cp)
                   \/ ~CheckDataAvail(Slice(rr, slc_all[1], slc_all[2]), self.data_avail_cp)
           THEN skip("availability", icp)
           ELSE IF NoRain(rr, slc_post)
           THEN skip("norain", icp)
           ELSE /\ loc' = [loc EXCEPT !.k = @ + 1,
                               !.cp_index = Append(@, icp),
                               !.icp_prev = icp]
                /\ last' = [t |-> t, icp |-> icp, verdict |-> "accepted",
                            prev |-> loc.icp_prev]
                /\ UNCHANGED <<pc, err>>
    /\ UNCHANGED <<inp, self, out, qry>>

\* lines 156-161
Finish ==
    /\ pc = "scan"
    /\ loc.k > Len(loc.t_ttlim)
    /\ self' = [self EXCEPT !.built = TRUE,
                    !.ttdata = inp.ttdata,
                    !.rrdata = inp.rrdata,
                    !.cp_index = loc.cp_index,
                    !.cp_datetime = IF inp.kind # "notdt"
                                    THEN [i \in DOMAIN loc.cp_index |->
                                             loc.cp_index[i] * inp.step]
                                    ELSE loc.cp_index,
                    !.ncp = Len(loc.cp_index)]
    /\ pc' = "done"
    /\ UNCHANGED <<inp, loc, last, out, err, qry>>

NextCtor == Validate \/ ScanStep \/ Finish

\* ------------------------------------------------------------------ queries
\* A reduction's value is a fraction <<num, den>> in lowest terms, den > 0; a
\* missing value is NaNQ.
NaNQ == <<0, 0>>

RECURSIVE Gcd(_, _)
Gcd(a, b) == IF b = 0 THEN a ELSE Gcd(b, a % b)

Abs(x) == IF x < 0 THEN -x ELSE x

Q(n, d) == LET g == Gcd(Abs(n), d) IN <<n \div g, d \div g>>

QOf(x) == IF IsFinite(x) THEN <<x, 1>> ELSE NaNQ

QSub(a, b) ==
    IF a = NaNQ \/ b = NaNQ THEN NaNQ
    ELSE Q(a[1] * b[2] - b[1] * a[2], a[2] * b[2])

Finite(col) == SelectSeq(col, IsFinite)

RECURSIVE Total(_)
Total(s) == IF s = <<>> THEN 0 ELSE Head(s) + Total(Tail(s))

Max(S) == CHOOSE x \in S : \A y \in S : x >= y

Range(s) == {s[i] : i \in DOMAIN s}

RECURSIVE Sorted(_)
Sorted(s) ==
    IF s = <<>> THEN <<>>
    ELSE LET m == Min(Range(s))
             k == Min({i \in DOMAIN s : s[i] = m})
         IN  <<m>> \o Sorted(SubSeq(s, 1, k - 1) \o SubSeq(s, k + 1, Len(s)))

FuncAvail == {"median", "mean", "max", "min", "sum", "first", "last"}

\* a pandas reduction of one column: missing values are skipped, a column of
\* missing values alone reduces to a missing value, and to 0 under sum
Reduce(col, funcstr) ==
    LET fin == Finite(col)
        srt == Sorted(fin)
        m == Len(fin)
    IN  CASE funcstr = "median" ->
                IF m = 0 THEN NaNQ
                ELSE IF m % 2 = 1 THEN <<srt[(m + 1) \div 2], 1>>
                ELSE Q(srt[m \div 2] + srt[m \div 2 + 1], 2)
          [] funcstr = "mean" -> IF m = 0 THEN NaNQ ELSE Q(Total(fin), m)
          [] funcstr = "max" -> IF m = 0 THEN NaNQ ELSE <<Max(Range(fin)), 1>>
          [] funcstr = "min" -> IF m = 0 THEN NaNQ ELSE <<Min(Range(fin)), 1>>
          [] funcstr = "sum" -> <<Total(fin), 1>>
          [] funcstr = "first" -> QOf(col[1])
          [] funcstr = "last" -> QOf(col[Len(col)])

\* a method's outcome: kind is "value", "table" (one column per event),
\* "series" (one value per event), "empty" (an empty frame) or "raise"
Outcome(kind, cols, diag) == [kind |-> kind, cols |-> cols, out |-> diag]

\* eventdata.empty: no rows or no columns
IsEmptyFrame(r) == r.kind = "empty" \/ (r.kind = "table" /\ r.cols = <<>>)

\* _calc_val on the rows lo..hi of a table
CalcVal(r, lo, hi, funcstr) ==
    IF funcstr \notin FuncAvail
    THEN Outcome("empty", <<>>, <<"bad_func">>)
    ELSE Outcome("series",
                 [c \in DOMAIN r.cols |-> Reduce(SubSeq(r.cols[c], lo, hi), funcstr)],
                 <<>>)

\* _pre_val: rows of offsets -npre..0
PreVal(s, r, funcstr) ==
    IF r.kind = "raise" \/ IsEmptyFrame(r) THEN Outcome(r.kind, r.cols, <<>>)
    ELSE CalcVal(r, 1, s.npre + 1, funcstr)

\* _post_val: rows of offsets 1..npost
PostVal(s, r, funcstr) ==
    IF r.kind = "raise" \/ IsEmptyFrame(r) THEN Outcome(r.kind, r.cols, <<>>)
    ELSE CalcVal(r, s.npre + 2, s.npre + s.npost + 1, funcstr)

\* _all_val
AllVal(s, r, funcstr) ==
    IF r.kind = "raise" \/ IsEmptyFrame(r) THEN Outcome(r.kind, r.cols, <<>>)
    ELSE CalcVal(r, 1, s.npre + s.npost + 1, funcstr)

\* var_time, lines 272-291; without the attributes set under check_all the read
\* of self.data_avail_all raises AttributeError
VarTimeOf(s, indata) ==
    IF ~CheckDataLen(Len(indata), s.ntime)
    THEN Outcome("empty", <<>>, LenDiag(Len(indata), s.ntime, "Provided"))
    ELSE IF ~s.hasattrs
    THEN Outcome("raise", <<>>, <<>>)
    ELSE LET window(c) == LET slc == IndexCp(s.cp_index[c], "all", s.npre, s.npost)
                          IN  Slice(indata, slc[1], slc[2])
             ok(c) == CheckDataAvail(window(c), s.data_avail_cp)
             RECURSIVE diags(_)
             diags(c) == IF c > Len(s.cp_index) THEN <<>>
                         ELSE AvailDiag(window(c), s.data_avail_cp, s.warn_avail_cp,
                                        "event") \o diags(c + 1)
         IN  Outcome("table",
                     [c \in DOMAIN s.cp_index |->
                         IF ok(c) THEN window(c)
                         ELSE [j \in 1..(s.npre + s.npost + 1) |-> NaN]],
                     AvailDiag(indata, s.data_avail_all, s.warn_avail_all, "provided")
                       \o diags(1))

\* post_val - pre_val, line 300
Minus(post, pre) ==
    IF post.kind = "series" /\ pre.kind = "series"
    THEN [c \in DOMAIN post.cols |-> QSub(post.cols[c], pre.cols[c])]
    ELSE <<>>

\* var_pert, lines 297-300: var_time runs twice
VarPertOf(s, indata, prefunc, postfunc) ==
    LET vt == VarTimeOf(s, indata)
        pre == PreVal(s, vt, prefunc)
        post == PostVal(s, vt, postfunc)
    IN  IF vt.kind = "raise" THEN vt
        ELSE Outcome(IF post.kind = "series" /\ pre.kind = "series"
                     THEN "series" ELSE "empty",
                     Minus(post, pre),
                     vt.out \o pre.out \o vt.out \o post.out)

Periods == {"pre", "post", "all"}

\* var_val, lines 304-315
VarValOf(s, indata, period, funcstr) ==
    IF period \notin Periods
    THEN Outcome("empty", <<>>, <<"bad_period">>)
    ELSE LET vt == VarTimeOf(s, indata)
             r == CASE period = "pre" -> PreVal(s, vt, funcstr)
                    [] period = "post" -> PostVal(s, vt, funcstr)
                    [] period = "all" -> AllVal(s, vt, funcstr)
         IN  IF vt.kind = "raise" THEN vt
             ELSE Outcome(IF IsEmptyFrame(r) THEN "empty" ELSE r.kind, r.cols,
                          vt.out \o r.out)

\* a method call returns: the result and what it printed are recorded, the
\* object is left as it is
Answer(op, args, indata, r) ==
    /\ pc = "done"
    /\ qry' = [op |-> op, args |-> args, indata |-> indata, kind |-> r.kind,
               cols |-> r.cols]
    /\ out' = r.out
    /\ err' = IF r.kind = "raise" THEN "AttributeError" ELSE "none"
    /\ UNCHANGED <<inp, pc, self, loc, last>>

\* a var_time that keeps the series it was given
VarTime_Keeping ==
    \E indata \in {Const(1, self.ntime)} :
        /\ pc = "done"
        /\ qry' = [op |-> "var_time", args |-> <<>>, indata |-> indata,
                   kind |-> VarTimeOf(self, indata).kind,
                   cols |-> VarTimeOf(self, indata).cols]
        /\ out' = VarTimeOf(self, indata).out
        /\ err' = "none"
        /\ self' = [self EXCEPT !.ttdata = indata]
        /\ UNCHANGED <<inp, pc, loc, last>>

\* series a caller supplies: of the grid's length or one short, complete, with
\* one missing sample, or with one sample only (the first or the last)
QuerySeries ==
    LET n == inp.n
    IN  {Const(1, n), Const(1, n - 1), [i \in 1..n |-> i % 3],
         [i \in 1..n |-> IF i = 1 THEN 2 ELSE NaN],
         [i \in 1..n |-> IF i = n THEN 2 ELSE NaN]}
          \cup OneOff({NaN}, 1, n)

FuncNames == FuncAvail \cup {"mode"}

PertPairs ==
    {<<f, f>> : f \in FuncNames}
      \cup {<<"median", "min">>, <<"median", "max">>, <<"sum", "min">>, <<"min", "sum">>}

ValArgs ==
    (Periods \X FuncAvail) \cup {<<"during", "mean">>, <<"pre", "mode">>}

Number == Answer("number", <<>>, <<>>, Outcome("value", <<self.ncp>>, <<>>))

Indices == Answer("indices", <<>>, <<>>, Outcome("value", self.cp_index, <<>>))

Datetimes == Answer("datetimes", <<>>, <<>>, Outcome("value", self.cp_datetime, <<>>))

VarTime ==
    \E indata \in QuerySeries :
        Answer("var_time", <<>>, indata, VarTimeOf(self, indata))

VarPert ==
    \E indata \in QuerySeries, a \in PertPairs :
        Answer("var_pert", a, indata, VarPertOf(self, indata, a[1], a[2]))

VarVal ==
    \E indata \in QuerySeries, a \in ValArgs :
        Answer("var_val", a, indata, VarValOf(self, indata, a[1], a[2]))

TtPert ==
    Answer("tt_pert", <<>>, self.ttdata, VarPertOf(self, self.ttdata, "median", "min"))

TtPre ==
    Answer("tt_pre", <<>>, self.ttdata, VarValOf(self, self.ttdata, "pre", "median"))

TtTime == Answer("tt_time", <<>>, self.ttdata, VarTimeOf(self, self.ttdata))

RrSum == Answer("rr_sum", <<>>, self.rrdata, VarValOf(self, self.rrdata, "all", "sum"))

RrMax == Answer("rr_max", <<>>, self.rrdata, VarValOf(self, self.rrdata, "all", "max"))

RrTime == Answer("rr_time", <<>>, self.rrdata, VarTimeOf(self, self.rrdata))

PpPert ==
    \E ppdata \in QuerySeries :
        Answer("pp_pert", <<>>, ppdata, VarPertOf(self, ppdata, "median", "max"))

FfPert ==
    \E ffdata \in QuerySeries :
        Answer("ff_pert", <<>>, ffdata, VarPertOf(self, ffdata, "median", "max"))

Next ==
    \/ Validate
    \/ ScanStep
    \/ Finish
    \/ Number
    \/ Indices
    \/ Datetimes
    \/ VarTime
    \/ VarPert
    \/ VarVal
    \/ TtPert
    \/ TtPre
    \/ TtTime
    \/ RrSum
    \/ RrMax
    \/ RrTime
    \/ PpPert
    \/ FfPert

\* ------------------------------------------------- detection: input families
RegularGrid(n, step, tt, rr, cfg) == MkInp("regular", n, step, tt, rr, cfg)

\* rain throughout, rain in the last two samples only, rain in all but the
\* last two samples
RainSteps(n) ==
    {Const(1, n),
     [i \in 1..n |-> IF i <= n - 2 THEN 0 ELSE 1],
     [i \in 1..n |-> IF i <= n - 2 THEN 1 ELSE 0]}

\* a series of S with one sample replaced by a missing value
OneGap(S, n) ==
    {[i \in 1..n |-> IF i = j THEN NaN ELSE tt[i]] : tt \in S, j \in 1..n}

\* non-increasing series that lose at least one degree
Ramps(n) ==
    {tt \in SeqsOf(0..MaxT, n) :
        /\ \A i \in 1..(n - 1) : tt[i + 1] <= tt[i]
        /\ tt[1] - tt[n] >= 1}

\* (d_tt, d_tt_p): the documented shape, equal thresholds, a non-negative
\* passage threshold, a passage threshold larger in magnitude than the drop
Thresholds == {<<-2, -1>>, <<-1, -1>>, <<-1, 0>>, <<-1, -2>>}

Documented == {<<-2, -1>>, <<-1, -1>>}

DetectCfgs(Th, Avail) ==
    {[DefaultCfg EXCEPT !.d_tt = th[1], !.d_tt_p = th[2], !.d_time = dt,
                        !.time_post = tp, !.data_avail_cp = a] :
        th \in Th, dt \in {1, 2}, tp \in {1, 2}, a \in Avail}

\* complete temperature series, rainfall with dry and wet stretches
InitFree ==
    \E n \in MinGrid..MaxN :
      \E tt \in SeqsOf(0..MaxT, n), rr \in RainSteps(n),
         cfg \in DetectCfgs(Thresholds, {<<1, 1>>}) :
          Start(RegularGrid(n, SecondsPerMinute, tt, rr, cfg))

\* one missing temperature sample, both availability thresholds
InitGap ==
    \E n \in MinGrid..MaxN :
      \E tt \in OneGap(SeqsOf(0..MaxT, n), n), rr \in {Const(1, n)},
         cfg \in DetectCfgs(Documented, {<<1, 1>>, <<1, 2>>}) :
          Start(RegularGrid(n, SecondsPerMinute, tt, rr, cfg))

\* a single drop, dry or wet throughout but for one sample
InitRainOf(V) ==
    \E n \in MinGrid..MaxN :
      \E tt \in Ramps(n), rr \in OneOff(V, 0, n) \cup OneOff(V, 1, n),
         cfg \in DetectCfgs(Documented, {<<1, 2>>, <<1, 1>>}) :
          Start(RegularGrid(n, SecondsPerMinute, tt, rr, cfg))

\* the one sample is missing, or a negative amount
InitRain == InitRainOf({0, 1, NaN}) \/ InitRainOf(RVals \ {0, 1, NaN})

\* a single drop searched over a window of up to three samples, in series of
\* up to MaxN + 2 samples
InitLongDrop ==
    \E n \in MinGrid..(MaxN + 2) :
      \E tt \in Ramps(n), rr \in {Const(1, n)}, th \in {<<-2, -1>>, <<-1, -1>>},
         dt \in {3}, tp \in {1, 2, 3} :
          Start(RegularGrid(n, SecondsPerMinute, tt, rr,
                    [DefaultCfg EXCEPT !.d_tt = th[1], !.d_tt_p = th[2],
                                       !.d_time = dt, !.time_post = tp]))

\* grid steps of one minute, two minutes, one day, one day and one minute;
\* durations of zero, one, two minutes, and a post window of 100000 minutes
GridSteps == {SecondsPerMinute, 2 * SecondsPerMinute, SecondsPerDay,
              SecondsPerDay + SecondsPerMinute}

InitResolution ==
    \E n \in {MaxN} :
      \E tt \in Ramps(n), step \in GridSteps, dt \in {0, 1, 2}, tpre \in {-1, 1, 2},
         tp \in {1, 2, 100000} :
          Start(RegularGrid(n, step, tt, Const(1, n),
                    [DefaultCfg EXCEPT !.d_time = dt, !.time_pre = tpre,
                                       !.time_post = tp]))

\* grids that fail validation, series of a wrong length
InitInvalid ==
    \E n \in {MaxN} :
      \E kind \in {"regular", "irregular", "notdt"}, lt \in {0, n - 1, n},
         lr \in {n - 1, n}, tt \in Ramps(n) :
          /\ ~(kind = "regular" /\ lt = n /\ lr = n)
          /\ Start(MkInp(kind, n, SecondsPerMinute, SubSeq(tt, 1, lt),
                         Const(1, lr), DefaultCfg))

InitDetect ==
    \/ InitFree
    \/ InitGap
    \/ InitRain
    \/ InitLongDrop
    \/ InitResolution
    \/ InitInvalid

SpecDetect == InitDetect /\ [][NextCtor]_vars

\* ---------------------------------------------------- queries: the engines
\* two drops, each followed by rain: 2, 2, 0, 2, 0, ...
TwoDrops(n) == [i \in 1..n |-> IF i = 1 \/ i % 2 = 0 THEN 2 ELSE 0]

\* engines with two events, under both availability thresholds and warning flags
InitEvents ==
    \E a \in {<<1, 1>>, <<1, 2>>}, w \in BOOLEAN :
        Start(RegularGrid(MaxN, SecondsPerMinute, TwoDrops(MaxN), Const(1, MaxN),
                  [DefaultCfg EXCEPT !.data_avail_cp = a, !.warn_avail_cp = w]))

\* an engine whose drop duration is shorter than one sampling interval
InitMismatch ==
    Start(RegularGrid(MaxN, 2 * SecondsPerMinute, TwoDrops(MaxN), Const(1, MaxN),
              DefaultCfg))

\* engines whose validation fails
InitFailed ==
    \E kind \in {"regular", "irregular", "notdt"}, lt \in {MaxN - 1, MaxN},
       lr \in {MaxN - 1, MaxN} :
        /\ ~(kind = "regular" /\ lt = MaxN /\ lr = MaxN)
        /\ Start(MkInp(kind, MaxN, SecondsPerMinute, SubSeq(TwoDrops(MaxN), 1, lt),
                       Const(1, lr), DefaultCfg))

Init == InitEvents \/ InitMismatch \/ InitFailed

Spec == Init /\ [][Next]_vars

\* ------------------------------------------------------------------ claims
Constructed == pc = "done"

Events == self.cp_index

Separated(cp, npost) ==
    \A i, j \in DOMAIN cp : i < j => cp[j] - cp[i] > npost

\* C1 as stated: after construction, any two accepted events i < j satisfy
\* index(j) - index(i) > npost, whatever the passage-refinement threshold.
C1_Original == Constructed => Separated(Events, self.npost)

\* C1 (amended): after construction with a negative passage-refinement
\* threshold, any two accepted events i < j satisfy index(j) - index(i) > npost,
\* so the indices increase strictly and no two post-windows overlap.
C1_Separation ==
    (Constructed /\ inp.cfg.d_tt_p < 0) => Separated(Events, self.npost)

\* two events as close as the separation rule allows
C1_Witness ==
    /\ Constructed
    /\ inp.cfg.d_tt_p < 0
    /\ Len(Events) >= 2
    /\ Events[2] - Events[1] = self.npost + 1

PostSum(i) == NpSum(Slice(inp.rrdata, i + 1, i + self.npost + 1))

\* C2 as stated: every accepted event has a rainfall sum over its post-window
\* [i+1, i+npost+1) that is strictly greater than zero, for every rainfall
\* series (negative values and missing samples included).
C2_Original ==
    Constructed =>
        \A i \in DOMAIN Events : IsFinite(PostSum(Events[i])) /\ PostSum(Events[i]) > 0

InsideSeries(i) == (i - self.npre >= 0) /\ (i + self.npost + 1 <= inp.n)

\* C3: every accepted event's "all" range [i - npre, i + npost + 1) lies inside
\* the series, and a candidate whose refined index puts the range outside is
\* never accepted.
C3_InsideSeries ==
    /\ Constructed => \A i \in DOMAIN Events : InsideSeries(Events[i])
    /\ \A i \in DOMAIN loc.cp_index : InsideSeries(loc.cp_index[i])
    /\ (last.verdict \in {"boundary", "availability", "norain", "accepted"}
          /\ ~InsideSeries(last.icp)) => last.verdict = "boundary"

\* two events, the first window starting at sample 0 and the second ending
\* with the series
C3_Witness ==
    /\ Constructed
    /\ Len(Events) = 2
    /\ Events[1] - self.npre = 0
    /\ Events[2] + self.npost + 1 = inp.n

AcceptedBefore ==
    IF last.verdict = "accepted"
    THEN SubSeq(loc.cp_index, 1, Len(loc.cp_index) - 1)
    ELSE loc.cp_index

\* C9 as stated: the reference of the separation test is the refined index of
\* the last accepted event and changes only on acceptance; a candidate t is
\* rejected on separation exactly when t - (that index) <= npost, and a
\* candidate with no accepted event before it is never rejected on separation.
C9_Original ==
    last.verdict \in {"separation", "boundary", "availability", "norain", "accepted"} =>
        /\ last.prev = (IF AcceptedBefore = <<>> THEN SentinelPrev
                        ELSE AcceptedBefore[Len(AcceptedBefore)])
        /\ loc.icp_prev = (IF last.verdict = "accepted" THEN last.icp ELSE last.prev)
        /\ (last.verdict = "separation") <=>
              (/\ AcceptedBefore # <<>>
               /\ last.t - AcceptedBefore[Len(AcceptedBefore)] <= self.npost)

\* C9 restricted to post-windows shorter than the sentinel's distance from
\* the first sample
C9_BelowSentinel == (self.npost < -SentinelPrev) => C9_Original

PassageTarget == Add(At(inp.ttdata, last.t), inp.cfg.d_tt_p)

\* C10: for a candidate t that reaches passage refinement, with
\* drop_threshold <= passage_threshold < 0, the refinement finds the first
\* index p of [t, t+ntt] with temperature[p] <= temperature[t] +
\* passage_threshold, p lies in [t+1, t+ntt], the passage index is p - 1, so
\* t <= passage index <= t + ntt - 1; the refinement never fails, missing
\* samples between t and t+ntt included.
C10_Refinement ==
    (/\ last.verdict \in {"raised", "boundary", "availability", "norain", "accepted"}
     /\ inp.cfg.d_tt <= inp.cfg.d_tt_p
     /\ inp.cfg.d_tt_p < 0) =>
        /\ last.verdict # "raised"
        /\ last.icp + 1 \in (last.t + 1)..(last.t + loc.ntt)
        /\ Le(At(inp.ttdata, last.icp + 1), PassageTarget)
        /\ \A q \in last.t..last.icp : ~Le(At(inp.ttdata, q), PassageTarget)
        /\ last.t <= last.icp
        /\ last.icp <= last.t + loc.ntt - 1

\* an accepted candidate whose sub-window has a missing sample before the
\* passage position
C10_Witness ==
    /\ last.verdict = "accepted"
    /\ inp.cfg.d_tt <= inp.cfg.d_tt_p
    /\ inp.cfg.d_tt_p < 0
    /\ last.icp = last.t + 1
    /\ ~IsFinite(At(inp.ttdata, last.t + 1))

\* ---- C7
\* the sample count of a duration under the grid's sampling interval
TrueCount(d, step) == TruncDiv(d * SecondsPerMinute, step)

Offending ==
    {p \in {"d_time", "time_pre", "time_post"} : TrueCount(inp.cfg[p], inp.step) <= 0}

ResolutionDiags ==
    (IF "d_time" \in Offending THEN <<"res_d_time">> ELSE <<>>)
      \o (IF "time_pre" \in Offending THEN <<"res_time_pre">> ELSE <<>>)
      \o (IF "time_post" \in Offending THEN <<"res_time_post">> ELSE <<>>)

ValidInput ==
    inp.kind = "regular" /\ Len(inp.ttdata) = inp.n /\ Len(inp.rrdata) = inp.n

\* C7 as stated: on a regular grid of any sampling interval, when a duration
\* divided by the interval is not a positive sample count, construction
\* completes without raising, finds zero events and prints one
\* resolution-mismatch diagnostic per offending parameter.
C7_Original ==
    (ValidInput /\ Offending # {} /\ pc # "new") =>
        /\ pc # "raised"
        /\ loc.cp_index = <<>>
        /\ out = ResolutionDiags
        /\ Constructed => self.ncp = 0

\* C7 restricted to sampling intervals shorter than one day
C7_BelowOneDay == (inp.step < SecondsPerDay) => C7_Original

\* ---- C4
NoMissing ==
    /\ \A i \in DOMAIN inp.ttdata : IsFinite(inp.ttdata[i])
    /\ \A i \in DOMAIN inp.rrdata : IsFinite(inp.rrdata[i])

\* constant, then non-increasing over at most ntt samples, then constant, losing
\* at least |d_tt| in all
SingleDrop(tt, ntt, d_tt) ==
    \E s, e \in DOMAIN tt :
        /\ s < e
        /\ e - s <= ntt
        /\ \A i \in 1..s : tt[i] = tt[1]
        /\ \A i \in e..Len(tt) : tt[i] = tt[Len(tt)]
        /\ \A i \in s..(e - 1) : tt[i + 1] <= tt[i]
        /\ tt[Len(tt)] - tt[1] <= d_tt

\* the first sample at which the temperature has fallen by |d_tt_p| from the
\* temperature the drop starts at
FirstFallen ==
    Min({i \in 0..(inp.n - 1) :
            At(inp.ttdata, i) <= At(inp.ttdata, 0) + inp.cfg.d_tt_p})

InjectedDrop ==
    /\ Constructed
    /\ ValidInput
    /\ inp.step < SecondsPerDay
    /\ loc.ntt > 0 /\ self.npre > 0 /\ self.npost > 0
    /\ NoMissing
    /\ inp.cfg.d_tt <= inp.cfg.d_tt_p
    /\ inp.cfg.d_tt_p < 0
    /\ SingleDrop(inp.ttdata, loc.ntt, inp.cfg.d_tt)

\* C4 as stated: one injected drop, rain after it, no missing data, the event
\* window inside the series: exactly one event, at the first sample where the
\* temperature has fallen by |passage_threshold| from the drop's start.
C4_Original ==
    (/\ InjectedDrop
     /\ InsideSeries(FirstFallen) /\ InsideSeries(FirstFallen - 1)
     /\ PostSum(FirstFallen) # 0 /\ PostSum(FirstFallen - 1) # 0) =>
        Events = <<FirstFallen>>

\* C4 (amended): under the same conditions, with the drop-search window shorter
\* than the series (ntt < N) and npost >= ntt - 1, there is exactly one event,
\* one sample before the first sample where the temperature has fallen by
\* |passage_threshold| from the drop's start.
C4_OneBefore ==
    (/\ InjectedDrop
     /\ loc.ntt < inp.n
     /\ self.npost >= loc.ntt - 1
     /\ InsideSeries(FirstFallen - 1)
     /\ PostSum(FirstFallen - 1) # 0) =>
        Events = <<FirstFallen - 1>>

\* C4_OneBefore without the two added conditions
C4_OneBefore_Unconditioned ==
    (/\ InjectedDrop
     /\ InsideSeries(FirstFallen - 1)
     /\ PostSum(FirstFallen - 1) # 0) =>
        Events = <<FirstFallen - 1>>

\* a drop spread over two samples, found by a candidate that starts before it
C4_Witness ==
    /\ InjectedDrop
    /\ loc.ntt < inp.n
    /\ self.npost >= loc.ntt - 1
    /\ InsideSeries(FirstFallen - 1)
    /\ PostSum(FirstFallen - 1) # 0
    /\ Events = <<FirstFallen - 1>>
    /\ Len(loc.t_ttlim) >= 2
    /\ loc.t_ttlim[1] < FirstFallen - 1

\* ---- C5
DataOps == {"var_time", "var_pert", "var_val", "tt_pert", "tt_pre", "tt_time",
            "rr_sum", "rr_max", "rr_time", "pp_pert", "ff_pert"}

\* C5 as stated: when validation fails, construction completes without raising
\* with no events, and every later query on any series returns an empty result
\* without raising.
C5_Original ==
    ~ValidInput =>
        /\ pc # "raised"
        /\ Constructed => (self.ncp = 0 /\ Events = <<>>)
        /\ qry.op \in DataOps => (qry.kind = "empty" /\ err = "none")

\* C5 restricted to a time grid that is not a datetime grid
C5_NotDatetime == (inp.kind = "notdt") => C5_Original

\* ---- C6
WindowOf(c) ==
    Slice(qry.indata, Events[c] - self.npre, Events[c] + self.npost + 1)

Missing(col) == Cardinality({i \in DOMAIN col : ~IsFinite(col[i])})

\* the window's missing-data fraction exceeds 1 - per_event_threshold
Nulled(c) ==
    Missing(WindowOf(c)) * self.data_avail_cp[2]
        > (self.data_avail_cp[2] - self.data_avail_cp[1]) * Len(WindowOf(c))

C6_Holds(reductions) ==
    (Constructed /\ qry.op \in reductions /\ qry.kind \in {"table", "series"}) =>
        /\ \A c \in DOMAIN Events :
              IF Nulled(c)
              THEN /\ qry.kind = "table" =>
                         \A j \in DOMAIN qry.cols[c] : qry.cols[c][j] = NaN
                   /\ qry.kind = "series" => qry.cols[c] = NaNQ
              ELSE qry.kind = "table" => qry.cols[c] = WindowOf(c)
        /\ ((\E c \in DOMAIN Events : Nulled(c)) /\ self.warn_avail_cp) =>
              \E i \in DOMAIN out : out[i] = "avail_event"

\* C6 as stated: an event whose window of the supplied series misses more
\* than 1 - per_event_threshold of its samples gets a null value in windowed,
\* in period_value for every period and reduction, and in every perturbation,
\* with a diagnostic when the per-event warning flag is set; the other events
\* keep their values.
C6_Original == C6_Holds(DataOps)

UsesSumOnly ==
    \/ qry.op = "rr_sum"
    \/ qry.op = "var_val" /\ qry.args[2] = "sum"
    \/ qry.op = "var_pert" /\ qry.args = <<"sum", "sum">>

\* C6 for every reduction but sum
C6_ExceptSum == UsesSumOnly \/ C6_Holds(DataOps)

\* ---- C8
\* C8: after construction no query changes the engine (event indices,
\* timestamps, count, npre, npost, thresholds, stored series), and a query
\* repeated with the same input returns the same result.
C8_ReadOnly ==
    [][pc = "done" =>
          /\ self' = self
          /\ inp' = inp
          /\ loc' = loc
          /\ pc' = pc
          /\ (qry'.op = qry.op /\ qry'.args = qry.args /\ qry'.indata = qry.indata) =>
                (qry' = qry /\ out' = out /\ err' = err)]_vars

\* a perturbation computed for two events, after construction
C8_Witness ==
    /\ Constructed
    /\ self.ncp = 2
    /\ qry.op = "var_pert"
    /\ qry.kind = "series"
    /\ self.ttdata = inp.ttdata

====
